---- MODULE Spec2Model ----
(***************************************************************************)
(* Model of src/src/anomaly_detection.py: AnomalyDetector, its four        *)
(* detectors, detect_all_methods, analyze_covid_impact,                    *)
(* correlate_with_events and generate_report; of the two fetch loops of    *)
(* TrendsCollector in src/src/data_collection.py; and of                   *)
(* run_full_pipeline in src/run_pipeline.py.                               *)
(*                                                                         *)
(* Representation.  A pandas Timestamp is the number of days since         *)
(* 2019-01-01 (an integer); a date string 'YYYY-MM-DD' is the tuple        *)
(* <<y, m, d>>.  A DataFrame is [index |-> sequence of Timestamps,         *)
(* cols |-> function column name -> sequence of values]; a Series is       *)
(* [idx |-> ..., val |-> ...].  Values are non-negative integers (search   *)
(* interest units), so every float comparison of the detectors is          *)
(* computed exactly, cross-multiplied into integer arithmetic.             *)
(* A float result is [k |-> "num", n |-> numerator, d |-> denominator],    *)
(* [k |-> "nan", ...] or [k |-> "inf", ...].                               *)
(***************************************************************************)
EXTENDS Integers, Sequences, FiniteSets, TLC

VARIABLES
    df,               \* the DataFrame handed to generate_report
    config,           \* the configuration the caller wants applied
    terms,            \* the requested term list
    forest,           \* IsolationForest(random_state=42): data -> flagged positions
    hashseed,         \* the hash secret of the running interpreter process
    now,              \* the wall clock read by datetime.now()
    pc,               \* position of the running call
    i,                \* generate_report: position of the loop over terms
    anomalies,        \* self.anomalies
    consensus_count,  \* detect_all_methods: its local consensus_count, last call
    report,           \* generate_report: its local report
    all_anomalies,    \* generate_report: its local all_anomalies
    correlate_calls,  \* correlate_with_events calls of the running generate_report
    covid_results,    \* value returned by the last analyze_covid_impact call
    returned,         \* the reports returned so far, in order
    retries,          \* TrendsCollector: the retries argument of the running call
    attempt,          \* TrendsCollector: the loop variable of range(retries)
    fetches,          \* collect_historical_data: outcomes of the fetches made, in order
    collected,        \* TrendsCollector: <<the value the call returned>>, <<>> before
    cpc,              \* TrendsCollector: position of the running call
    current,          \* collect_daily_data_chunked: its local current
    end,              \* collect_daily_data_chunked: its local end
    timeframes,       \* collect_daily_data_chunked: the timeframe of each chunk, in order
    all_chunks,       \* collect_daily_data_chunked: its local all_chunks
    continue_on_error,\* run_pipeline: args.continue_on_error
    step,             \* run_full_pipeline: position of the loop over steps
    started,          \* run_full_pipeline: the steps called so far, in order
    outcomes,         \* run_full_pipeline: how each called step ended
    exit_status,      \* run_pipeline: <<exit status of the process>>, <<>> while it runs
    ppc               \* run_pipeline: position of the process

collector_vars == <<retries, attempt, fetches, collected, cpc, current, end, timeframes,
                    all_chunks>>

pipeline_vars == <<continue_on_error, step, started, outcomes, exit_status, ppc>>

detector_vars == <<df, config, terms, forest, hashseed, now, pc, i, anomalies,
                   consensus_count, report, all_anomalies, correlate_calls, covid_results,
                   returned>>

vars == <<detector_vars, collector_vars, pipeline_vars>>

-----------------------------------------------------------------------------
(* Bounds of the model                                                     *)

\* length of the daily index of the DataFrame given to generate_report
NumDates == 14

\* number of generate_report invocations on the one detector object
MaxRuns == 2

\* length of the index in the stand-alone analyze_covid_impact runs
CovidDates == 4

\* length of the daily series of the end-to-end scenario
ScenarioDays == 100

\* number of successive detect_all_methods calls on the one detector object
MaxStores == 3

\* largest retries argument given to the collector
MaxRetries == 3

-----------------------------------------------------------------------------
(* Generic helpers                                                         *)

Abs(x) == IF x < 0 THEN -x ELSE x

Range(s) == {s[k] : k \in DOMAIN s}

\* sum of s[k] over the positions k <= n that are in S
RECURSIVE SumUpTo(_, _, _)
SumUpTo(s, S, n) ==
    IF n = 0 THEN 0
    ELSE (IF n \in S THEN s[n] ELSE 0) + SumUpTo(s, S, n - 1)

SumOver(s, S) == SumUpTo(s, S, Len(s))

SumSqOver(s, S) == SumOver([k \in DOMAIN s |-> s[k] * s[k]], S)

\* a/b > c/d for a, c >= 0 and b, d > 0, by the integer parts and then the
\* remainders, so that no product of the four numbers is formed
RECURSIVE FracGreater(_, _, _, _)
FracGreater(a, b, c, d) ==
    IF a \div b # c \div d THEN a \div b > c \div d
    ELSE IF c % d = 0 THEN a % b > 0
    ELSE IF a % b = 0 THEN FALSE
    ELSE FracGreater(d, c % d, b, a % b)

\* variant: an existing key keeps its value (setdefault)
DictSet_MutKeepFirst(d, k, v) == IF k \in DOMAIN d THEN d ELSE (k :> v) @@ d

\* python dict as a function: d[k] = v
DictSet(d, k, v) == (k :> v) @@ d

EmptyDict == <<>>

-----------------------------------------------------------------------------
(* Dates: pd.to_datetime on 'YYYY-MM-DD' and str() of a Timestamp           *)

IsLeap(y) == (y % 4 = 0 /\ y % 100 # 0) \/ y % 400 = 0

DaysInYear(y) == IF IsLeap(y) THEN 366 ELSE 365

DaysInMonth(y, m) ==
    CASE m \in {1, 3, 5, 7, 8, 10, 12} -> 31
      [] m \in {4, 6, 9, 11} -> 30
      [] OTHER -> IF IsLeap(y) THEN 29 ELSE 28

RECURSIVE DaysBeforeYear(_)
DaysBeforeYear(y) ==
    IF y <= 2019 THEN 0 ELSE DaysBeforeYear(y - 1) + DaysInYear(y - 1)

RECURSIVE DaysBeforeMonth(_, _)
DaysBeforeMonth(y, m) ==
    IF m <= 1 THEN 0 ELSE DaysBeforeMonth(y, m - 1) + DaysInMonth(y, m - 1)

\* pd.to_datetime('YYYY-MM-DD')
ToDatetime(s) == DaysBeforeYear(s[1]) + DaysBeforeMonth(s[1], s[2]) + s[3] - 1

Years == 2019..2025

\* str(Timestamp): the calendar date of a day number
DateStr(t) ==
    LET y == CHOOSE yy \in Years :
                 DaysBeforeYear(yy) <= t /\ t < DaysBeforeYear(yy + 1)
        r == t - DaysBeforeYear(y)
        m == CHOOSE mm \in 1..12 :
                 DaysBeforeMonth(y, mm) <= r
                 /\ r < DaysBeforeMonth(y, mm) + DaysInMonth(y, mm)
    IN <<y, m, r - DaysBeforeMonth(y, m) + 1>>

-----------------------------------------------------------------------------
(* AnomalyDetector.__init__                                                *)

\* variant: the dict literal lists the lockdown before the declaration
major_events_MutUnordered ==
    << [date |-> <<2020, 3, 15>>,  event |-> "US lockdowns begin"],
       [date |-> <<2020, 3, 11>>,  event |-> "WHO declares COVID-19 pandemic"],
       [date |-> <<2020, 11, 3>>,  event |-> "US election"],
       [date |-> <<2021, 1, 6>>,   event |-> "US Capitol attack"],
       [date |-> <<2022, 2, 24>>,  event |-> "Ukraine war begins"],
       [date |-> <<2023, 3, 10>>,  event |-> "Silicon Valley Bank collapse"],
       [date |-> <<2024, 1, 1>>,   event |-> "New year mental health awareness"] >>

\* self.major_events, in the insertion order of the dict literal
major_events ==
    << [date |-> <<2020, 3, 11>>,  event |-> "WHO declares COVID-19 pandemic"],
       [date |-> <<2020, 3, 15>>,  event |-> "US lockdowns begin"],
       [date |-> <<2020, 11, 3>>,  event |-> "US election"],
       [date |-> <<2021, 1, 6>>,   event |-> "US Capitol attack"],
       [date |-> <<2022, 2, 24>>,  event |-> "Ukraine war begins"],
       [date |-> <<2023, 3, 10>>,  event |-> "Silicon Valley Bank collapse"],
       [date |-> <<2024, 1, 1>>,   event |-> "New year mental health awareness"] >>


-----------------------------------------------------------------------------
(* Program constants (default arguments of the detectors)                  *)

\* zscore_detection: threshold=2.5, as ZThresholdNum / ZThresholdDen
ZThresholdNum == 5
ZThresholdDen == 2

\* modified_zscore_detection: threshold=3.5 and the factor 0.6745
MadThresholdNum == 7
MadThresholdDen == 2
MadFactorNum == 6745
MadFactorDen == 10000

\* isolation_forest_detection: contamination=0.05
ContaminationNum == 5
ContaminationDen == 100

\* rolling_statistics_detection: window=12, threshold=2.5
RollWindow == 12
RollThresholdNum == 5
RollThresholdDen == 2

\* detect_all_methods: count >= 3
Quorum == 3

\* correlate_with_events: window_days=14
WindowDays == 14

-----------------------------------------------------------------------------
(* The four detectors.  Each returns the index labels (dates) it flags.     *)

Positions(series) == 1..Len(series.val)

\* |v - mean| / std > num/den for a sample of n values with sum S and sum
\* of squares Q, with the sample standard deviation (ddof=1):
\*   std^2 = (n*Q - S^2) / (n*(n-1)),  v - mean = (n*v - S) / n.
\* std = 0 or undefined (n < 2) makes the quotient NaN, and NaN > t is False.
\* that is z^2 = (n*v - S)^2 * (n-1) / (n * (n*Q - S^2)) > num^2 / den^2,
\* compared as the fractions (n*v - S)^2 / (n*Q - S^2) and
\* num^2 * n / (den^2 * (n-1)).
ZAbove(n, S, Q, v, num, den) ==
    /\ n > 1
    /\ n * Q - S * S > 0
    /\ FracGreater((n * v - S) * (n * v - S), n * Q - S * S,
                   num * num * n, den * den * (n - 1))

zscore_detection(series) ==
    LET x == series.val
        n == Len(x)
        S == SumOver(x, 1..n)
        Q == SumSqOver(x, 1..n)
    IN {series.idx[k] : k \in {p \in Positions(series) :
            ZAbove(n, S, Q, x[p], ZThresholdNum, ZThresholdDen)}}

\* the k-th smallest element of a non-empty sequence
KthSmallest(x, k) ==
    CHOOSE v \in Range(x) :
        /\ Cardinality({p \in DOMAIN x : x[p] < v}) < k
        /\ Cardinality({p \in DOMAIN x : x[p] <= v}) >= k

\* twice the median of a non-empty sequence
Median2(x) ==
    LET n == Len(x)
    IN IF n % 2 = 1 THEN 2 * KthSmallest(x, (n + 1) \div 2)
       ELSE KthSmallest(x, n \div 2) + KthSmallest(x, n \div 2 + 1)

\* 0.6745 * |x - median| / mad > 3.5, with dev2 = 2*|x - median| and
\* mad4 = 4*mad: |x - median| / mad = 2*dev2 / mad4.
\* An empty series has median NaN: mad == 0 is False and nothing compares.
\* variant: the mad == 0 test is missing, the division by zero gives inf
\* for every value off the median
modified_zscore_detection_MutNoMadGuard(series) ==
    LET x == series.val
        n == Len(x)
        med2 == Median2(x)
        dev2 == [p \in 1..n |-> Abs(2 * x[p] - med2)]
        mad4 == Median2(dev2)
    IN IF n = 0 THEN {}
       ELSE IF mad4 = 0 THEN {series.idx[k] : k \in {p \in 1..n : dev2[p] > 0}}
       ELSE {series.idx[k] : k \in {p \in 1..n :
               MadFactorNum * 2 * dev2[p] * MadThresholdDen
                   > MadThresholdNum * MadFactorDen * mad4}}

\* variant: np.abs is missing, only values above the median are flagged
modified_zscore_detection_MutNoAbs(series) ==
    LET x == series.val
        n == Len(x)
        med2 == Median2(x)
        dev2 == [p \in 1..n |-> Abs(2 * x[p] - med2)]
        mad4 == Median2(dev2)
    IN IF n = 0 THEN {}
       ELSE IF mad4 = 0 THEN {}
       ELSE {series.idx[k] : k \in {p \in 1..n :
               MadFactorNum * 2 * (2 * x[p] - med2) * MadThresholdDen
                   > MadThresholdNum * MadFactorDen * mad4}}

modified_zscore_detection(series) ==
    LET x == series.val
        n == Len(x)
        med2 == Median2(x)
        dev2 == [p \in 1..n |-> Abs(2 * x[p] - med2)]
        mad4 == Median2(dev2)
    IN IF n = 0 THEN {}
       ELSE IF mad4 = 0 THEN {}
       ELSE {series.idx[k] : k \in {p \in 1..n :
               MadFactorNum * 2 * dev2[p] * MadThresholdDen
                   > MadThresholdNum * MadFactorDen * mad4}}

\* IsolationForest.fit_predict flags the samples whose score lies strictly
\* below the contamination-percentile of all n scores (linear
\* interpolation at rank contamination*(n-1)): at most
\* ceil(contamination*(n-1)) samples, and equal values score equally.
\* Which of these sets it is depends on the trees grown from random_state.
ForestMaxFlagged(n) ==
    IF n = 0 THEN 0
    ELSE (ContaminationNum * (n - 1) + ContaminationDen - 1) \div ContaminationDen

\* A value that occurs once beside n - 1 >= 2 copies of one other value is
\* cut off by the first split of every tree (max_samples = min(256, n)
\* takes all n samples), so its path is the shortest under any seed: it
\* scores lowest and is the one flagged sample.
\* variant: the contamination share of the samples is flagged by rank,
\* ties or not
ForestOutcomes_MutByRank(x) ==
    {F \in SUBSET DOMAIN x : Cardinality(F) = ForestMaxFlagged(Len(x))}

ForestOutcomes(x) ==
    LET once == {p \in DOMAIN x : Cardinality({q \in DOMAIN x : x[q] = x[p]}) = 1}
    IN IF Cardinality(Range(x)) = 2 /\ Cardinality(once) = 1 /\ Len(x) >= 3
                /\ Len(x) <= 256
       THEN {once}
       ELSE {F \in {{p \in DOMAIN x : x[p] \in V} : V \in SUBSET Range(x)} :
                Cardinality(F) <= ForestMaxFlagged(Len(x))}

isolation_forest_detection(series) ==
    {series.idx[k] : k \in forest[series.val]}

\* rolling(window, center=True): the window of position k is
\* [k + off - window + 1, k + off] with off = (window - 1) // 2, and the
\* statistic is NaN unless the whole window lies inside the series.
\* variant: center=True is missing, the window ends at position k
RollingWindow_MutTrailing(n, k) ==
    LET lo == k - RollWindow + 1
    IN IF lo >= 1 THEN lo..k ELSE {}

RollingWindow(n, k) ==
    LET off == (RollWindow - 1) \div 2
        lo == k + off - RollWindow + 1
        hi == k + off
    IN IF lo >= 1 /\ hi <= n THEN lo..hi ELSE {}

rolling_statistics_detection(series) ==
    LET x == series.val
        n == Len(x)
    IN {series.idx[k] : k \in {p \in 1..n :
            LET W == RollingWindow(n, p)
            IN /\ W # {}
               /\ ZAbove(Cardinality(W), SumOver(x, W), SumSqOver(x, W), x[p],
                         RollThresholdNum, RollThresholdDen)}}

-----------------------------------------------------------------------------
(* detect_all_methods                                                      *)

MethodNames == {"zscore", "modified_zscore", "isolation_forest", "rolling_stats"}

Methods(series) ==
    [zscore |-> zscore_detection(series),
     modified_zscore |-> modified_zscore_detection(series),
     isolation_forest |-> isolation_forest_detection(series),
     rolling_stats |-> rolling_statistics_detection(series)]

ConsensusDates(methods) == UNION {methods[m] : m \in DOMAIN methods}

\* variant: the zscore detector's vote is not counted
ConsensusCount_MutSkipZscore(methods) ==
    [d \in ConsensusDates(methods) |->
        Cardinality({m \in DOMAIN methods \ {"zscore"} : d \in methods[m]})]

ConsensusCount(methods) ==
    [d \in ConsensusDates(methods) |->
        Cardinality({m \in DOMAIN methods : d \in methods[m]})]

\* Iteration order of a python set of Timestamps: by hash slot, not by
\* value.  A Timestamp hashes as a datetime, through the interpreter's
\* per-process hash secret, so the order is a function of the set's
\* contents and of that secret; the two secrets of the model give the two
\* opposite orders.
SlotKeyBefore(a, b) == (a % 8 < b % 8) \/ (a % 8 = b % 8 /\ a < b)

SlotBefore(a, b) == IF hashseed = 0 THEN SlotKeyBefore(a, b) ELSE SlotKeyBefore(b, a)

RECURSIVE SetIter(_)
SetIter(S) ==
    IF S = {} THEN <<>>
    ELSE LET a == CHOOSE x \in S : \A y \in S \ {x} : SlotBefore(x, y)
         IN <<a>> \o SetIter(S \ {a})

\* variant: promotion at two agreeing detectors
HighConfidence_MutQuorum2(cc) ==
    LET order == SetIter(DOMAIN cc)
        kept == SelectSeq(order, LAMBDA d : cc[d] >= 2)
    IN [k \in 1..Len(kept) |-> [date |-> kept[k], count |-> cc[kept[k]]]]

\* variant: promotion needs more than three agreeing detectors
HighConfidence_MutQuorum4(cc) ==
    LET order == SetIter(DOMAIN cc)
        kept == SelectSeq(order, LAMBDA d : cc[d] > Quorum)
    IN [k \in 1..Len(kept) |-> [date |-> kept[k], count |-> cc[kept[k]]]]

\* high_confidence: the dict comprehension over consensus_count.items(),
\* kept as the sequence of its items in insertion order
HighConfidence(cc) ==
    LET order == SetIter(DOMAIN cc)
        kept == SelectSeq(order, LAMBDA d : cc[d] >= Quorum)
    IN [k \in 1..Len(kept) |-> [date |-> kept[k], count |-> cc[kept[k]]]]

\* the value stored in self.anomalies[name] and returned
detect_all_methods(series) ==
    LET methods == Methods(series)
    IN [methods |-> methods,
        high_confidence |-> HighConfidence(ConsensusCount(methods))]

HighConfidenceDates(entry) ==
    {entry.high_confidence[k].date : k \in DOMAIN entry.high_confidence}


-----------------------------------------------------------------------------
(* DataFrame access                                                        *)

Columns(d) == DOMAIN d.cols

\* df[term]
Column(d, term) == [idx |-> d.index, val |-> d.cols[term]]

\* df.loc[date, term]
Loc(d, date, term) ==
    d.cols[term][CHOOSE k \in DOMAIN d.index : d.index[k] = date]

\* df.loc[lo:hi, term] of a sorted DatetimeIndex: both ends inclusive
SlicePositions(d, lo, hi) == {k \in DOMAIN d.index : lo <= d.index[k] /\ d.index[k] <= hi}

\* df.loc[lo:, term]
SliceFromPositions(d, lo) == {k \in DOMAIN d.index : lo <= d.index[k]}

-----------------------------------------------------------------------------
(* Float arithmetic of analyze_covid_impact (numpy float64: a division by  *)
(* zero yields inf or nan, never an exception)                              *)

NaN == [k |-> "nan", n |-> 0, d |-> 1]

Inf == [k |-> "inf", n |-> 0, d |-> 1]

NegInf == [k |-> "-inf", n |-> 0, d |-> 1]

Num(n, d) == [k |-> "num", n |-> n, d |-> d]

\* Series.mean(): NaN on an empty selection
Mean(x, W) == IF W = {} THEN NaN ELSE Num(SumOver(x, W), Cardinality(W))

\* Series.max(): NaN on an empty selection
Max(x, W) ==
    IF W = {} THEN NaN
    ELSE Num(CHOOSE v \in {x[k] : k \in W} : \A k \in W : x[k] <= v, 1)

FSub(a, b) ==
    IF a.k = "num" /\ b.k = "num" THEN Num(a.n * b.d - b.n * a.d, a.d * b.d)
    ELSE NaN

FDiv(a, b) ==
    IF a.k # "num" \/ b.k # "num" THEN NaN
    ELSE IF b.n = 0
         THEN (IF a.n = 0 THEN NaN ELSE IF a.n > 0 THEN Inf ELSE NegInf)
         ELSE IF b.n > 0 THEN Num(a.n * b.d, a.d * b.n)
         ELSE Num(-(a.n * b.d), -(a.d * b.n))

FMul(a, c) == IF a.k = "num" THEN Num(a.n * c, a.d) ELSE a

-----------------------------------------------------------------------------
(* analyze_covid_impact                                                    *)

covid_start == <<2020, 3, 1>>

pre_covid == <<2019, 1, 1>>

\* variant: the pre-period ends the day before the cutoff
PrePositions_MutExclusive(d) ==
    SlicePositions(d, ToDatetime(pre_covid), ToDatetime(covid_start) - 1)

PrePositions(d) == SlicePositions(d, ToDatetime(pre_covid), ToDatetime(covid_start))

DuringPositions(d) == SliceFromPositions(d, ToDatetime(covid_start))

\* idxmax(): the label of the first maximum
IdxMax(d, x, W) ==
    LET top == CHOOSE v \in {x[k] : k \in W} : \A k \in W : x[k] <= v
        first == CHOOSE k \in W : x[k] = top /\ \A j \in W : x[j] = top => k <= j
    IN d.index[first]

\* the body of the loop for one term of the DataFrame; idxmax() of an
\* empty selection raises ValueError
CovidTermRaises(d, term) == DuringPositions(d) = {}

CovidTerm(d, term) ==
    LET x == d.cols[term]
        pre == Mean(x, PrePositions(d))
        during == Mean(x, DuringPositions(d))
    IN [pre_covid_avg |-> pre,
        during_covid_avg |-> during,
        percent_change |-> FMul(FDiv(FSub(during, pre), pre), 100),
        peak_value |-> Max(x, DuringPositions(d)),
        peak_date |-> DateStr(IdxMax(d, x, DuringPositions(d)))]

\* variant: every column of the DataFrame is analyzed
CovidTerms_MutAllColumns(d, ts) == Columns(d)

CovidTerms(d, ts) == {ts[k] : k \in DOMAIN ts} \cap Columns(d)

analyze_covid_impact_raises(d, ts) ==
    \E term \in CovidTerms(d, ts) : CovidTermRaises(d, term)

analyze_covid_impact(d, ts) == [term \in CovidTerms(d, ts) |-> CovidTerm(d, term)]

-----------------------------------------------------------------------------
(* correlate_with_events                                                   *)

\* pd.DataFrame(all_anomalies).set_index('date'), index through
\* pd.to_datetime: the keys of the row dicts, 'date' excepted, are the columns
AnomaliesDf(rows) ==
    [index |-> [k \in DOMAIN rows |-> rows[k].date],
     columns |-> <<"term", "value">>,
     rows |-> [k \in DOMAIN rows |-> [term |-> rows[k].term, value |-> rows[k].value]]]

\* variant: the end of the window is excluded
NearbyAnomalies_MutOpenEnd(adf, date_str, window_days) ==
    LET event_date == ToDatetime(date_str)
        window_start == event_date - window_days
        window_end == event_date + window_days
    IN {k \in DOMAIN adf.index :
            adf.index[k] >= window_start /\ adf.index[k] < window_end}

\* the positions of anomalies_df selected for one event
NearbyAnomalies(adf, date_str, window_days) ==
    LET event_date == ToDatetime(date_str)
        window_start == event_date - window_days
        window_end == event_date + window_days
    IN {k \in DOMAIN adf.index :
            adf.index[k] >= window_start /\ adf.index[k] <= window_end}

\* variant: the count is that of the distinct dates
Correlation_MutDistinctDates(adf, ev, window_days) ==
    [event |-> ev.event,
     event_date |-> ev.date,
     anomaly_count |->
         Cardinality({adf.index[k] : k \in NearbyAnomalies(adf, ev.date, window_days)}),
     terms_affected |-> adf.columns]

Correlation(adf, ev, window_days) ==
    [event |-> ev.event,
     event_date |-> ev.date,
     anomaly_count |-> Cardinality(NearbyAnomalies(adf, ev.date, window_days)),
     terms_affected |-> adf.columns]

\* variant: no emptiness test, every event is appended
RECURSIVE CorrelateFrom_MutNoEmptyTest(_, _, _, _)
CorrelateFrom_MutNoEmptyTest(adf, events, k, window_days) ==
    IF k > Len(events) THEN <<>>
    ELSE <<Correlation(adf, events[k], window_days)>>
             \o CorrelateFrom_MutNoEmptyTest(adf, events, k + 1, window_days)

RECURSIVE CorrelateFrom(_, _, _, _)
CorrelateFrom(adf, events, k, window_days) ==
    IF k > Len(events) THEN <<>>
    ELSE (IF NearbyAnomalies(adf, events[k].date, window_days) # {}
          THEN <<Correlation(adf, events[k], window_days)>>
          ELSE <<>>) \o CorrelateFrom(adf, events, k + 1, window_days)

correlate_with_events(adf) == CorrelateFrom(adf, major_events, 1, WindowDays)


-----------------------------------------------------------------------------
(* generate_report, one action per stretch of its body                     *)

NoReport ==
    [analysis_date |-> 0,
     terms_analyzed |-> <<>>,
     anomalies_by_term |-> EmptyDict,
     covid_impact |-> EmptyDict,
     event_correlations |-> <<>>]

HashSeeds == {0, 1}

\* lines 174-182: the report skeleton, stamped with datetime.now()
generate_report_begin ==
    /\ pc \in {"idle", "done"}
    /\ Len(returned) < MaxRuns
    /\ report' = [analysis_date |-> now,
                  terms_analyzed |-> terms,
                  anomalies_by_term |-> EmptyDict,
                  covid_impact |-> EmptyDict,
                  event_correlations |-> <<>>]
    /\ all_anomalies' = <<>>
    /\ correlate_calls' = 0
    /\ i' = 1
    /\ now' = now + 1
    /\ pc' = "terms"
    /\ UNCHANGED <<collector_vars, pipeline_vars>>
    /\ UNCHANGED <<df, config, terms, forest, hashseed, anomalies, consensus_count, covid_results,
                   returned>>

\* variant: the last high-confidence date is not appended
AnomalyRows_MutDropLast(d, term, hc) ==
    [k \in 1..(Len(hc) - 1) |->
        [date |-> hc[k].date, term |-> term, value |-> Loc(d, hc[k].date, term)]]

\* the rows appended to all_anomalies for one term
AnomalyRows(d, term, hc) ==
    [k \in DOMAIN hc |->
        [date |-> hc[k].date, term |-> term, value |-> Loc(d, hc[k].date, term)]]

\* variant: the correlator is called inside the loop, on the anomalies
\* gathered so far
generate_report_term_MutCorrelateInLoop ==
    /\ pc = "terms"
    /\ i <= Len(terms)
    /\ LET term == terms[i]
       IN IF term \in Columns(df)
          THEN /\ anomalies' = DictSet(anomalies, term, detect_all_methods(Column(df, term)))
               /\ LET result == anomalies'[term]
                      hc == result.high_confidence
                  IN
                  /\ consensus_count' = ConsensusCount(result.methods)
                  /\ all_anomalies' = all_anomalies \o AnomalyRows(df, term, hc)
                  /\ report' = [report EXCEPT
                        !.anomalies_by_term =
                            DictSet(@, term,
                                [total_anomalies |-> Len(hc),
                                 dates |-> [k \in DOMAIN hc |-> DateStr(hc[k].date)]]),
                        !.event_correlations =
                            IF all_anomalies' # <<>>
                            THEN correlate_with_events(AnomaliesDf(all_anomalies'))
                            ELSE @]
                  /\ correlate_calls' = IF all_anomalies' # <<>>
                                        THEN correlate_calls + 1
                                        ELSE correlate_calls
          ELSE UNCHANGED <<anomalies, consensus_count, report, all_anomalies,
                           correlate_calls>>
    /\ i' = i + 1
    /\ UNCHANGED <<collector_vars, pipeline_vars>>
    /\ UNCHANGED <<df, config, terms, forest, hashseed, now, pc, covid_results, returned>>

\* lines 184-199: one iteration of the loop over terms
\* variant: the count of a term is the running total over the terms so far
generate_report_term_MutRunningTotal ==
    /\ pc = "terms"
    /\ i <= Len(terms)
    /\ LET term == terms[i]
       IN IF term \in Columns(df)
          THEN /\ anomalies' = DictSet(anomalies, term, detect_all_methods(Column(df, term)))
               /\ LET result == anomalies'[term]
                      hc == result.high_confidence
                  IN
                  /\ consensus_count' = ConsensusCount(result.methods)
                  /\ report' = [report EXCEPT !.anomalies_by_term =
                        DictSet(@, term,
                            [total_anomalies |-> Len(all_anomalies) + Len(hc),
                             dates |-> [k \in DOMAIN hc |-> DateStr(hc[k].date)]])]
                  /\ all_anomalies' = all_anomalies \o AnomalyRows(df, term, hc)
          ELSE UNCHANGED <<anomalies, consensus_count, report, all_anomalies>>
    /\ i' = i + 1
    /\ UNCHANGED <<collector_vars, pipeline_vars>>
    /\ UNCHANGED <<df, config, terms, forest, hashseed, now, pc, correlate_calls,
                   covid_results, returned>>

generate_report_term ==
    /\ pc = "terms"
    /\ i <= Len(terms)
    /\ LET term == terms[i]
       IN IF term \in Columns(df)
          THEN /\ anomalies' = DictSet(anomalies, term, detect_all_methods(Column(df, term)))
               /\ LET result == anomalies'[term]
                      hc == result.high_confidence
                  IN
                  /\ consensus_count' = ConsensusCount(result.methods)
                  /\ report' = [report EXCEPT !.anomalies_by_term =
                        DictSet(@, term,
                            [total_anomalies |-> Len(hc),
                             dates |-> [k \in DOMAIN hc |-> DateStr(hc[k].date)]])]
                  /\ all_anomalies' = all_anomalies \o AnomalyRows(df, term, hc)
          ELSE UNCHANGED <<anomalies, consensus_count, report, all_anomalies>>
    /\ i' = i + 1
    /\ UNCHANGED <<collector_vars, pipeline_vars>>
    /\ UNCHANGED <<df, config, terms, forest, hashseed, now, pc, correlate_calls,
                   covid_results, returned>>

\* line 201: the call of analyze_covid_impact; its exception propagates
generate_report_covid ==
    /\ pc = "terms"
    /\ i > Len(terms)
    /\ IF analyze_covid_impact_raises(df, terms)
       THEN /\ pc' = "raised"
            /\ UNCHANGED <<report, covid_results>>
       ELSE /\ covid_results' = analyze_covid_impact(df, terms)
            /\ report' = [report EXCEPT !.covid_impact = covid_results']
            /\ pc' = "correlate"
    /\ UNCHANGED <<collector_vars, pipeline_vars>>
    /\ UNCHANGED <<df, config, terms, forest, hashseed, now, i, anomalies, consensus_count,
                   all_anomalies, correlate_calls, returned>>

\* variant: the correlator is called without the test for anomalies
generate_report_correlate_MutNoGuard ==
    /\ pc = "correlate"
    /\ report' = [report EXCEPT !.event_correlations =
                      correlate_with_events(AnomaliesDf(all_anomalies))]
    /\ correlate_calls' = correlate_calls + 1
    /\ returned' = Append(returned, [report |-> report', hashseed |-> hashseed])
    /\ pc' = "done"
    /\ UNCHANGED <<collector_vars, pipeline_vars>>
    /\ UNCHANGED <<df, config, terms, forest, hashseed, now, i, anomalies, consensus_count,
                   all_anomalies, covid_results>>

\* lines 203-210: the event correlations, and the return
generate_report_correlate ==
    /\ pc = "correlate"
    /\ report' = IF all_anomalies # <<>>
                 THEN [report EXCEPT !.event_correlations =
                          correlate_with_events(AnomaliesDf(all_anomalies))]
                 ELSE report
    /\ correlate_calls' = IF all_anomalies # <<>> THEN correlate_calls + 1
                          ELSE correlate_calls
    /\ returned' = Append(returned, [report |-> report', hashseed |-> hashseed])
    /\ pc' = "done"
    /\ UNCHANGED <<collector_vars, pipeline_vars>>
    /\ UNCHANGED <<df, config, terms, forest, hashseed, now, i, anomalies, consensus_count,
                   all_anomalies, covid_results>>

\* main() run again: a new interpreter process, with its own hash secret,
\* builds a new AnomalyDetector and reads the same data
main_again ==
    /\ pc = "done"
    /\ Len(returned) < MaxRuns
    /\ hashseed' \in HashSeeds
    /\ anomalies' = EmptyDict
    /\ consensus_count' = EmptyDict
    /\ correlate_calls' = 0
    /\ pc' = "idle"
    /\ UNCHANGED <<collector_vars, pipeline_vars>>
    /\ UNCHANGED <<df, config, terms, forest, now, i, report, all_anomalies,
                   covid_results, returned>>

-----------------------------------------------------------------------------
(* The inputs                                                              *)

\* terms of main(), two of them
Terms == {"depression", "anxiety"}

\* the requested lists: every non-empty list of distinct terms
TermLists ==
    {s \in UNION {[1..n -> Terms] : n \in 1..Cardinality(Terms)} :
        \A a, b \in DOMAIN s : a # b => s[a] # s[b]}

\* first day of the index: 2020-02-05, 2020-02-20 and 2020-03-20
StartDays == {400, 415, 444}

DailyIndex(start, n) == [k \in 1..n |-> start + k - 1]

FlatBase(n) == [k \in 1..n |-> 50]

WaveBase(n) == [k \in 1..n |-> 50 + (k % 3)]

\* the first and the last position, and the two around the first one the
\* rolling window reaches
SpikePositions(n) == {1, RollWindow \div 2, RollWindow \div 2 + 1, n}

\* the series of the model: flat at 50, without or with a value of 95 in
\* the middle; cycling 51, 52, 50, without or with one value of 95; and
\* cycling with a peak of 100 and a final drop to 0
Family(n) ==
    {FlatBase(n), [FlatBase(n) EXCEPT ![RollWindow \div 2 + 1] = 95], WaveBase(n)}
    \cup {[WaveBase(n) EXCEPT ![p] = 95] : p \in SpikePositions(n)}
    \cup {[WaveBase(n) EXCEPT ![RollWindow \div 2 + 1] = 100, ![n] = 0]}

\* the fitted forests: one admissible outcome per column's data
ForestOracles(d) ==
    LET data == {d.cols[c] : c \in Columns(d)}
    IN {f \in [data -> UNION {ForestOutcomes(x) : x \in data}] :
            \A x \in data : f[x] \in ForestOutcomes(x)}

\* the values the code applies: the literals of the detectors' signatures
\* and of detect_all_methods
DefaultConfig ==
    [quorum |-> Quorum, threshold |-> [num |-> ZThresholdNum, den |-> ZThresholdDen]]

\* no collector call is running
CollectorIdle ==
    /\ retries = 0
    /\ attempt = 0
    /\ fetches = <<>>
    /\ collected = <<>>
    /\ cpc = "idle"
    /\ current = 0
    /\ end = 0
    /\ timeframes = <<>>
    /\ all_chunks = <<>>

\* run_pipeline.py is not running
PipelineIdle ==
    /\ continue_on_error = FALSE
    /\ step = 1
    /\ started = <<>>
    /\ outcomes = <<>>
    /\ exit_status = <<>>
    /\ ppc = "idle"

Quiet ==
    /\ hashseed \in HashSeeds
    /\ correlate_calls = 0
    /\ now = 1
    /\ pc = "idle"
    /\ i = 1
    /\ anomalies = EmptyDict
    /\ consensus_count = EmptyDict
    /\ report = NoReport
    /\ all_anomalies = <<>>
    /\ covid_results = EmptyDict
    /\ returned = <<>>
    /\ CollectorIdle
    /\ PipelineIdle

Init ==
    /\ \E start \in StartDays, C \in SUBSET Terms :
          \E cols \in [C -> Family(NumDates)] :
              df = [index |-> DailyIndex(start, NumDates), cols |-> cols]
    /\ config = DefaultConfig
    /\ terms \in TermLists
    /\ forest \in ForestOracles(df)
    /\ Quiet

Next ==
    \/ generate_report_begin
    \/ generate_report_term
    \/ generate_report_covid
    \/ generate_report_correlate
    \/ main_again

Spec == Init /\ [][Next]_vars


-----------------------------------------------------------------------------
(* analyze_covid_impact called on its own                                  *)

analyze_covid_impact_call ==
    /\ pc = "idle"
    /\ IF analyze_covid_impact_raises(df, terms)
       THEN /\ pc' = "raised"
            /\ UNCHANGED covid_results
       ELSE /\ covid_results' = analyze_covid_impact(df, terms)
            /\ pc' = "returned"
    /\ UNCHANGED <<collector_vars, pipeline_vars>>
    /\ UNCHANGED <<df, config, terms, forest, hashseed, now, i, anomalies, consensus_count,
                   report, all_anomalies, correlate_calls, returned>>

\* first day of the index: the cutoff 2020-03-01 is day 425
CovidStartDays == {421, 423, 424, 426}

CovidValues == {0, 2, 5}

CovidInit ==
    /\ \E start \in CovidStartDays, C \in SUBSET {"depression"} :
          \E cols \in [C -> [1..CovidDates -> CovidValues]] :
              df = [index |-> DailyIndex(start, CovidDates), cols |-> cols]
    /\ config = DefaultConfig
    /\ terms \in TermLists
    /\ forest = EmptyDict
    /\ Quiet

SpecCovid == CovidInit /\ [][analyze_covid_impact_call]_vars

-----------------------------------------------------------------------------
(* generate_report called by a caller who wants a configuration applied.   *)
(* AnomalyDetector.__init__(self) and generate_report(self, df, terms)     *)
(* have no parameter that receives one, and detect_all_methods calls the   *)
(* detectors with their default arguments: no action reads config.         *)

\* the configurations a caller may want: a quorum of 2, 3 or 5 detectors
\* and a z-score threshold of 2.5 or -1
Configs ==
    [quorum : {2, Quorum, 5},
     threshold : {[num |-> ZThresholdNum, den |-> ZThresholdDen],
                  [num |-> -1, den |-> 1]}]

\* the index starts on 2020-02-20
ConfigInit ==
    /\ \E start \in {415}, C \in SUBSET Terms :
          \E cols \in [C -> {[WaveBase(NumDates) EXCEPT ![p] = 95] :
                                p \in SpikePositions(NumDates)}] :
              df = [index |-> DailyIndex(start, NumDates), cols |-> cols]
    /\ config \in Configs
    /\ terms \in TermLists
    /\ forest \in ForestOracles(df)
    /\ Quiet

SpecConfig == ConfigInit /\ [][Next]_vars

-----------------------------------------------------------------------------
(* generate_report on the end-to-end scenario: 'depression' flat at 50     *)
(* with the single value 95 at day 50                                      *)

\* day 50 counted from 1 and counted from 0
ScenarioSpikes == {ScenarioDays \div 2, ScenarioDays \div 2 + 1}

ScenarioSeries == {[FlatBase(ScenarioDays) EXCEPT ![p] = 95] : p \in ScenarioSpikes}

\* first day of the index: day 50 falls before every event (2019-12-07),
\* at the 2020 events (2020-01-26) and between events (2021-03-01)
ScenarioStartDays == {340, 390, 790}

ScenarioInit ==
    /\ \E start \in ScenarioStartDays, x \in ScenarioSeries,
             others \in SUBSET {"anxiety"} :
          df = [index |-> DailyIndex(start, ScenarioDays),
                cols |-> [c \in {"depression"} \cup others |->
                             IF c = "depression" THEN x ELSE FlatBase(ScenarioDays)]]
    /\ config = DefaultConfig
    /\ terms \in TermLists
    /\ forest \in ForestOracles(df)
    /\ Quiet

SpecScenario == ScenarioInit /\ [][Next]_vars

-----------------------------------------------------------------------------
(* detect_all_methods called on its own, on one series                     *)

detect_all_methods_call ==
    /\ pc = "idle"
    /\ \E name \in Columns(df) :
          /\ anomalies' = DictSet(anomalies, name, detect_all_methods(Column(df, name)))
          /\ consensus_count' = ConsensusCount(anomalies'[name].methods)
    /\ pc' = "returned"
    /\ UNCHANGED <<collector_vars, pipeline_vars>>
    /\ UNCHANGED <<df, config, terms, forest, hashseed, now, i, report, all_anomalies,
                   correlate_calls, covid_results, returned>>

\* lengths of the series: too short for the z-score threshold, the first
\* length it can reach, and around the rolling window
DetectLens == {2, 8, 9, NumDates - 1, NumDates}

\* mostly 50, every fourth value 51
TiedBase(n) == [k \in 1..n |-> IF k % 4 = 0 THEN 51 ELSE 50]

\* the values injected: far below, just outside, and far above
SpikeValues == {0, 64, 65, 95}

\* a flat, a tied or a cycling series, as it is or with one injected value
\* at any position
DetectFamily(n) ==
    LET bases == {FlatBase(n), TiedBase(n), WaveBase(n)}
    IN bases \cup {[b EXCEPT ![p] = v] : b \in bases, p \in 1..n, v \in SpikeValues}

DetectInit ==
    /\ \E start \in {415}, n \in DetectLens :
          \E x \in DetectFamily(n) :
              df = [index |-> DailyIndex(start, n), cols |-> [c \in {"depression"} |-> x]]
    /\ config = DefaultConfig
    /\ terms = <<"depression">>
    /\ forest \in ForestOracles(df)
    /\ Quiet

SpecDetect == DetectInit /\ [][detect_all_methods_call]_vars

-----------------------------------------------------------------------------
(* generate_report called again by the same process, on the same detector  *)
(* object and DataFrame, with the requested terms in another order         *)

generate_report_reordered ==
    /\ pc = "done"
    /\ Len(returned) < MaxRuns
    /\ \E p \in Permutations(DOMAIN terms) :
          terms' = [k \in DOMAIN terms |-> terms[p[k]]]
    /\ pc' = "idle"
    /\ UNCHANGED <<collector_vars, pipeline_vars>>
    /\ UNCHANGED <<df, config, forest, hashseed, now, i, anomalies, consensus_count, report,
                   all_anomalies, correlate_calls, covid_results, returned>>

NextOrder ==
    \/ Next
    \/ generate_report_reordered

SpecOrder == Init /\ [][NextOrder]_vars

-----------------------------------------------------------------------------
(* detect_all_methods called several times on one detector object, each    *)
(* time with one of the series and under one of the names                  *)

detect_all_methods_store ==
    /\ pc = "idle"
    /\ i <= MaxStores
    /\ \E col \in Columns(df), name \in Terms :
          LET methods == Methods(Column(df, col))
          IN /\ consensus_count' = ConsensusCount(methods)
             /\ anomalies' = DictSet(anomalies, name,
                                 [methods |-> methods,
                                  high_confidence |-> HighConfidence(consensus_count')])
             /\ returned' = Append(returned, [name |-> name, result |-> anomalies'[name]])
    /\ i' = i + 1
    /\ UNCHANGED <<collector_vars, pipeline_vars>>
    /\ UNCHANGED <<df, config, terms, forest, hashseed, now, pc, report, all_anomalies,
                   correlate_calls, covid_results>>

\* two columns, each cycling 51, 52, 50 with a value of 95 at one position
StoreInit ==
    /\ \E start \in {415} :
          \E cols \in [Terms -> {[WaveBase(NumDates) EXCEPT ![p] = 95] :
                                    p \in SpikePositions(NumDates)}] :
              df = [index |-> DailyIndex(start, NumDates), cols |-> cols]
    /\ config = DefaultConfig
    /\ terms \in TermLists
    /\ forest \in ForestOracles(df)
    /\ Quiet

SpecStore == StoreInit /\ [][detect_all_methods_store]_vars

-----------------------------------------------------------------------------
(* TrendsCollector.collect_historical_data.  A fetch is build_payload      *)
(* followed by interest_over_time; it raises or yields a DataFrame.        *)

\* pd.DataFrame()
EmptyDataFrame == [index |-> <<>>, cols |-> EmptyDict]

\* DataFrame.empty: no rows or no columns
Empty(d) == Len(d.index) = 0 \/ DOMAIN d.cols = {}

\* DataFrame.drop(c, axis=1, errors='ignore')
Drop(d, c) == [d EXCEPT !.cols = [k \in DOMAIN d.cols \ {c} |-> d.cols[k]]]

\* what a fetch can do: raise, or yield no rows, or two weekly rows with or
\* without the isPartial column
FetchOutcomes ==
    {[raised |-> TRUE, data |-> EmptyDataFrame]}
    \cup {[raised |-> FALSE, data |-> d] : d \in
             {EmptyDataFrame,
              [index |-> <<>>, cols |-> ("depression" :> <<>>)],
              [index |-> <<1, 8>>, cols |-> ("depression" :> <<40, 60>>)],
              [index |-> <<1, 8>>,
               cols |-> ("depression" :> <<40, 60>>) @@ ("isPartial" :> <<0, 1>>)]}}

\* variant: the exception of the last attempt is raised again
collect_historical_data_attempt_MutReraise ==
    /\ cpc = "historical"
    /\ attempt < retries
    /\ \E fetch \in FetchOutcomes :
          /\ fetches' = Append(fetches, fetch)
          /\ IF fetch.raised
             THEN IF attempt < retries - 1
                  THEN attempt' = attempt + 1 /\ UNCHANGED <<collected, cpc>>
                  ELSE cpc' = "raised" /\ UNCHANGED <<attempt, collected>>
             ELSE IF ~Empty(fetch.data)
                  THEN /\ collected' = <<Drop(fetch.data, "isPartial")>>
                       /\ cpc' = "returned"
                       /\ UNCHANGED attempt
                  ELSE attempt' = attempt + 1 /\ UNCHANGED <<collected, cpc>>
    /\ UNCHANGED <<retries, current, end, timeframes, all_chunks>>
    /\ UNCHANGED <<detector_vars, pipeline_vars>>

\* lines 28-49: one pass of the loop over range(retries)
collect_historical_data_attempt ==
    /\ cpc = "historical"
    /\ attempt < retries
    /\ \E fetch \in FetchOutcomes :
          /\ fetches' = Append(fetches, fetch)
          /\ IF fetch.raised
             THEN attempt' = attempt + 1 /\ UNCHANGED <<collected, cpc>>
             ELSE IF ~Empty(fetch.data)
                  THEN /\ collected' = <<Drop(fetch.data, "isPartial")>>
                       /\ cpc' = "returned"
                       /\ UNCHANGED attempt
                  ELSE attempt' = attempt + 1 /\ UNCHANGED <<collected, cpc>>
    /\ UNCHANGED <<retries, current, end, timeframes, all_chunks>>
    /\ UNCHANGED <<detector_vars, pipeline_vars>>

\* line 51: range(retries) is exhausted
collect_historical_data_exhausted ==
    /\ cpc = "historical"
    /\ attempt >= retries
    /\ collected' = <<EmptyDataFrame>>
    /\ cpc' = "returned"
    /\ UNCHANGED <<retries, attempt, fetches, current, end, timeframes, all_chunks>>
    /\ UNCHANGED <<detector_vars, pipeline_vars>>

\* no detector call is running and none has run
DetectorIdle ==
    /\ df = EmptyDataFrame
    /\ config = DefaultConfig
    /\ terms = <<>>
    /\ forest = EmptyDict
    /\ hashseed = 0
    /\ now = 1
    /\ pc = "idle"
    /\ i = 1
    /\ anomalies = EmptyDict
    /\ consensus_count = EmptyDict
    /\ report = NoReport
    /\ all_anomalies = <<>>
    /\ correlate_calls = 0
    /\ covid_results = EmptyDict
    /\ returned = <<>>

\* collect_historical_data has been called with some retries argument
CollectInit ==
    /\ DetectorIdle
    /\ PipelineIdle
    /\ retries \in 0..MaxRetries
    /\ attempt = 0
    /\ fetches = <<>>
    /\ collected = <<>>
    /\ cpc = "historical"
    /\ current = 0
    /\ end = 0
    /\ timeframes = <<>>
    /\ all_chunks = <<>>

NextCollect ==
    \/ collect_historical_data_attempt
    \/ collect_historical_data_exhausted

\* the call runs to its end: every fetch returns or raises (the requests
\* carry a timeout) and every sleep ends
SpecCollect == CollectInit /\ [][NextCollect]_vars /\ WF_vars(NextCollect)

-----------------------------------------------------------------------------
(* TrendsCollector.collect_daily_data_chunked.  Here a Timestamp is a      *)
(* number of half days since 2019-01-01, so that 'today' has a time of day *)
(* and a start date is a midnight.                                         *)

ChunkDays == 180

\* timedelta(days=n)
timedelta(days) == 2 * days

\* strftime('%Y-%m-%d'): the day, the time of day dropped
strftime(t) == t \div 2

\* line 65
ChunkEnd(cur, e) == IF cur + timedelta(ChunkDays) <= e THEN cur + timedelta(ChunkDays) ELSE e

\* line 66: the two dates of the timeframe string
Timeframe(cur, e) == <<strftime(cur), strftime(ChunkEnd(cur, e))>>

\* variant: the next chunk starts on the day the previous one ended
NextChunkStart_MutSameDay(chunk_end) == chunk_end

\* line 90
NextChunkStart(chunk_end) == chunk_end + timedelta(1)

\* what a fetch of a timeframe can do: raise, yield nothing, or yield the
\* rows of its first and last day with the isPartial column
ChunkFetches(tf) ==
    {[raised |-> TRUE, data |-> EmptyDataFrame],
     [raised |-> FALSE, data |-> EmptyDataFrame],
     [raised |-> FALSE,
      data |-> [index |-> <<tf[1], tf[2]>>,
                cols |-> ("depression" :> <<40, 60>>) @@ ("isPartial" :> <<0, 1>>)]]}

\* pd.concat of frames with the same columns
RECURSIVE Concat(_)
Concat(chunks) ==
    IF Len(chunks) = 1 THEN chunks[1]
    ELSE LET rest == Concat(Tail(chunks))
         IN [index |-> chunks[1].index \o rest.index,
             cols |-> [c \in DOMAIN chunks[1].cols |-> chunks[1].cols[c] \o rest.cols[c]]]

\* the positions of S in the order of their index value (a stable sort)
RECURSIVE SortedPositions(_, _)
SortedPositions(S, index) ==
    IF S = {} THEN <<>>
    ELSE LET k == CHOOSE a \in S :
                      \A b \in S : index[a] < index[b] \/ (index[a] = index[b] /\ a <= b)
         IN <<k>> \o SortedPositions(S \ {k}, index)

\* lines 96-98: concat, the first row of each index value kept, sort_index
Combined(chunks) ==
    LET all == Concat(chunks)
        first == {k \in DOMAIN all.index : \A j \in 1..(k - 1) : all.index[j] # all.index[k]}
        order == SortedPositions(first, all.index)
    IN [index |-> [k \in DOMAIN order |-> all.index[order[k]]],
        cols |-> [c \in DOMAIN all.cols |-> [k \in DOMAIN order |-> all.cols[c][order[k]]]]]

\* lines 64-68: the loop test holds, the timeframe of the chunk is built
collect_daily_data_chunked_chunk ==
    /\ cpc = "while"
    /\ current < end
    /\ timeframes' = Append(timeframes, Timeframe(current, end))
    /\ attempt' = 0
    /\ cpc' = "for"
    /\ UNCHANGED <<retries, fetches, collected, current, end, all_chunks>>
    /\ UNCHANGED <<detector_vars, pipeline_vars>>

\* lines 70-90: one pass of the loop over range(retries); after a
\* non-empty fetch the break and the advance of current
collect_daily_data_chunked_attempt ==
    /\ cpc = "for"
    /\ attempt < retries
    /\ \E fetch \in ChunkFetches(timeframes[Len(timeframes)]) :
          IF ~fetch.raised /\ ~Empty(fetch.data)
          THEN /\ all_chunks' = Append(all_chunks, Drop(fetch.data, "isPartial"))
               /\ current' = NextChunkStart(ChunkEnd(current, end))
               /\ cpc' = "while"
               /\ UNCHANGED attempt
          ELSE /\ attempt' = attempt + 1
               /\ UNCHANGED <<all_chunks, current, cpc>>
    /\ UNCHANGED <<retries, fetches, collected, end, timeframes>>
    /\ UNCHANGED <<detector_vars, pipeline_vars>>

\* line 90, range(retries) exhausted without a non-empty fetch
collect_daily_data_chunked_exhausted ==
    /\ cpc = "for"
    /\ attempt >= retries
    /\ current' = NextChunkStart(ChunkEnd(current, end))
    /\ cpc' = "while"
    /\ UNCHANGED <<retries, attempt, fetches, collected, end, timeframes, all_chunks>>
    /\ UNCHANGED <<detector_vars, pipeline_vars>>

\* lines 92-100: the loop test fails
collect_daily_data_chunked_return ==
    /\ cpc = "while"
    /\ current >= end
    /\ collected' = <<IF all_chunks = <<>> THEN EmptyDataFrame ELSE Combined(all_chunks)>>
    /\ cpc' = "returned"
    /\ UNCHANGED <<retries, attempt, fetches, current, end, timeframes, all_chunks>>
    /\ UNCHANGED <<detector_vars, pipeline_vars>>

\* 'today': midnight and noon of 2026-11-01
EndTimes == {5722, 5723}

\* the start date, in days before today: tomorrow, today, and the days
\* around one, two and three chunks
StartOffsets == {-1, 0, 1, 179, 180, 181, 182, 361, 362, 363, 400}

ChunkedInit ==
    /\ DetectorIdle
    /\ PipelineIdle
    /\ retries \in 0..MaxRetries
    /\ attempt = 0
    /\ fetches = <<>>
    /\ collected = <<>>
    /\ cpc = "while"
    /\ end \in EndTimes
    /\ \E k \in StartOffsets : current = 2 * (strftime(end) - k)
    /\ timeframes = <<>>
    /\ all_chunks = <<>>

NextChunked ==
    \/ collect_daily_data_chunked_chunk
    \/ collect_daily_data_chunked_attempt
    \/ collect_daily_data_chunked_exhausted
    \/ collect_daily_data_chunked_return

\* the call runs to its end: every fetch returns or raises (the requests
\* carry a timeout) and every sleep ends
SpecChunked == ChunkedInit /\ [][NextChunked]_vars /\ WF_vars(NextChunked)

-----------------------------------------------------------------------------
(* run_pipeline.py: the pipeline command                                   *)

\* lines 41-46
steps == <<"collect_data", "preprocess_data", "train_models", "detect_anomalies">>

\* how a step function ends: it returns, or it raises one of the
\* exceptions of the steps' modules
StepOutcomes == {"returned", "ValueError", "FileNotFoundError"}

\* lines 65-98: 'pipeline' is parsed, with or without --continue-on-error
main_pipeline ==
    /\ ppc = "idle"
    /\ continue_on_error' \in BOOLEAN
    /\ step' = 1
    /\ ppc' = "steps"
    /\ UNCHANGED <<started, outcomes, exit_status>>
    /\ UNCHANGED <<detector_vars, collector_vars>>

\* variant: sys.exit(1) whatever the flag
run_full_pipeline_step_MutNoFlag ==
    /\ ppc = "steps"
    /\ step <= Len(steps)
    /\ started' = Append(started, steps[step])
    /\ \E outcome \in StepOutcomes :
          /\ outcomes' = Append(outcomes, outcome)
          /\ IF outcome # "returned"
             THEN /\ exit_status' = <<1>>
                  /\ ppc' = "exited"
                  /\ UNCHANGED step
             ELSE /\ step' = step + 1
                  /\ UNCHANGED <<exit_status, ppc>>
    /\ UNCHANGED continue_on_error
    /\ UNCHANGED <<detector_vars, collector_vars>>

\* lines 48-57: one pass of the loop over steps
run_full_pipeline_step ==
    /\ ppc = "steps"
    /\ step <= Len(steps)
    /\ started' = Append(started, steps[step])
    /\ \E outcome \in StepOutcomes :
          /\ outcomes' = Append(outcomes, outcome)
          /\ IF outcome # "returned" /\ ~continue_on_error
             THEN /\ exit_status' = <<1>>
                  /\ ppc' = "exited"
                  /\ UNCHANGED step
             ELSE /\ step' = step + 1
                  /\ UNCHANGED <<exit_status, ppc>>
    /\ UNCHANGED continue_on_error
    /\ UNCHANGED <<detector_vars, collector_vars>>

\* lines 59-62 and the end of main: the process ends with status 0
run_full_pipeline_complete ==
    /\ ppc = "steps"
    /\ step > Len(steps)
    /\ exit_status' = <<0>>
    /\ ppc' = "exited"
    /\ UNCHANGED <<continue_on_error, step, started, outcomes>>
    /\ UNCHANGED <<detector_vars, collector_vars>>

PipelineInit ==
    /\ DetectorIdle
    /\ CollectorIdle
    /\ PipelineIdle

NextPipeline ==
    \/ main_pipeline
    \/ run_full_pipeline_step
    \/ run_full_pipeline_complete

SpecPipeline == PipelineInit /\ [][NextPipeline]_vars

-----------------------------------------------------------------------------
(* Vocabulary of the properties                                            *)

IndexDates == Range(df.index)

\* number of the four detectors whose stored result holds the date
Agreement(name, d) ==
    Cardinality({m \in MethodNames : d \in anomalies[name].methods[m]})

Finished == pc = "done"

EventDay(ev) == ToDatetime(ev.date)

Events == Range(major_events)

\* anomaly count the finished report gives an event, 0 when it lists none
CountFor(ev) ==
    LET cs == {k \in DOMAIN report.event_correlations :
                  report.event_correlations[k].event_date = ev.date}
    IN IF cs = {} THEN 0
       ELSE report.event_correlations[CHOOSE k \in cs : TRUE].anomaly_count

\* the requested terms that are columns of the DataFrame
AnalyzedTerms == Range(terms) \cap Columns(df)

\* the (date, term) pairs promoted by the stored detector results
Promoted ==
    {p \in IndexDates \X AnalyzedTerms : Agreement(p[2], p[1]) >= 3}


-----------------------------------------------------------------------------
(* Properties                                                              *)

\* C1: for every stored detect_all_methods result, a date of the series is
\* in the high-confidence set if and only if at least 3 of the four
\* detectors flagged it, and the count recorded with it is that number.
C1_HighConfidenceIffQuorum ==
    \A name \in DOMAIN anomalies :
        /\ \A d \in IndexDates :
              d \in HighConfidenceDates(anomalies[name]) <=> Agreement(name, d) >= 3
        /\ \A k \in DOMAIN anomalies[name].high_confidence :
              anomalies[name].high_confidence[k].count
                  = Agreement(name, anomalies[name].high_confidence[k].date)

\* C1 witness: one stored result promotes a date, and a stored result holds
\* a date that one or two detectors flagged and that is not promoted.
C1_Witness ==
    /\ \E name \in DOMAIN anomalies : HighConfidenceDates(anomalies[name]) # {}
    /\ \E name \in DOMAIN anomalies : \E d \in IndexDates :
          /\ Agreement(name, d) \in {1, 2}
          /\ d \notin HighConfidenceDates(anomalies[name])

\* the term of the latest detect_all_methods call of generate_report
LastAnalyzed == terms[i - 1]

AfterDetect == pc = "terms" /\ i > 1 /\ terms[i - 1] \in Columns(df)

\* C2: after a detect_all_methods call, consensus_count has exactly the
\* dates of the union of the four flagged sets as keys, and each count is
\* the number of the four sets that hold the date, between 1 and 4.
C2_ConsensusCountOverUnion ==
    AfterDetect =>
        LET m == anomalies[LastAnalyzed].methods
        IN /\ DOMAIN consensus_count =
                  m.zscore \cup m.modified_zscore \cup m.isolation_forest \cup m.rolling_stats
           /\ \A d \in DOMAIN consensus_count :
                  /\ consensus_count[d] = Agreement(LastAnalyzed, d)
                  /\ consensus_count[d] \in 1..4

\* C2 witness: a call whose union holds a date all four detectors flagged.
C2_Witness ==
    /\ AfterDetect
    /\ \E d \in DOMAIN consensus_count : consensus_count[d] = 4

\* C3 (as stated): any two reports returned for the same DataFrame, term
\* list and configuration are identical.
C3_ByteIdenticalReports ==
    \A a, b \in DOMAIN returned : returned[a].report = returned[b].report

WithoutTimestamp(rep) == [rep EXCEPT !.analysis_date = 0]

\* C3, setting the timestamp aside: any two reports returned for the same
\* inputs are identical in every field other than analysis_date.  It does
\* not hold either: two processes list the same high-confidence dates of a
\* term in different orders.
C3_IdenticalButTimestamp ==
    \A a, b \in DOMAIN returned :
        WithoutTimestamp(returned[a].report) = WithoutTimestamp(returned[b].report)

\* C3, what does hold: runs under one hash secret differ in analysis_date
\* alone.
C3_IdenticalUnderOneSecret ==
    \A a, b \in DOMAIN returned :
        returned[a].hashseed = returned[b].hashseed =>
            WithoutTimestamp(returned[a].report) = WithoutTimestamp(returned[b].report)

\* the rows of all_anomalies inside the closed window of an event
RowsNear(ev) ==
    {k \in DOMAIN all_anomalies : Abs(all_anomalies[k].date - EventDay(ev)) <= 14}

\* C4 (as stated): the affected terms of every event correlation are the
\* distinct term names of the high-confidence anomalies inside the event's
\* window.
C4_AffectedTermsAreTermNames ==
    Finished =>
        \A k \in DOMAIN report.event_correlations :
            LET c == report.event_correlations[k]
                ev == CHOOSE e \in Events : e.date = c.event_date
            IN Range(c.terms_affected) = {all_anomalies[r].term : r \in RowsNear(ev)}

\* C5: the window is closed and symmetric: the count the report gives an
\* event is the number of anomaly rows dated at most 14 days before or
\* after it, so a row exactly 14 days away is matched and one 15 days away
\* is not.
C5_WindowSymmetricInclusive ==
    Finished =>
        \A ev \in Events :
            /\ CountFor(ev) = Cardinality(RowsNear(ev))
            /\ \A k \in DOMAIN all_anomalies :
                  /\ Abs(all_anomalies[k].date - EventDay(ev)) = 14 => CountFor(ev) >= 1
                  /\ (Cardinality(DOMAIN all_anomalies) = 1
                      /\ Abs(all_anomalies[k].date - EventDay(ev)) = 15) => CountFor(ev) = 0

\* C5 witness: a finished report with an anomaly exactly 14 days before an
\* event and matched to it, and an anomaly exactly 15 days before the
\* same event.
C5_Witness ==
    /\ Finished
    /\ \E ev \in Events :
          /\ \E k \in DOMAIN all_anomalies : all_anomalies[k].date = EventDay(ev) - 14
          /\ \E k \in DOMAIN all_anomalies : all_anomalies[k].date = EventDay(ev) - 15
          /\ CountFor(ev) >= 1

\* C5 witness, the later boundary: an anomaly exactly 14 days after an event.
C5_WitnessAfter ==
    /\ Finished
    /\ \E ev \in Events :
          /\ \E k \in DOMAIN all_anomalies : all_anomalies[k].date = EventDay(ev) + 14
          /\ CountFor(ev) >= 1

\* the promoted (date, term) pairs inside the closed window of an event
PromotedNear(ev) == {p \in Promoted : Abs(p[1] - EventDay(ev)) <= 14}

\* C6: the anomaly count of an event is the number of promoted
\* (date, term) pairs inside its window, not the number of distinct dates.
C6_CountsInstances ==
    Finished =>
        \A ev \in Events : CountFor(ev) = Cardinality(PromotedNear(ev))

\* C6 witness: one date promoted for two terms inside an event's window,
\* counted twice.
C6_Witness ==
    /\ Finished
    /\ \E ev \in Events :
          /\ CountFor(ev) = 2
          /\ Cardinality({p[1] : p \in PromotedNear(ev)}) = 1

\* C7: the events listed in the report are exactly the calendar events with
\* a promoted anomaly inside their window, each listed once, and no listed
\* correlation has anomaly count 0.
C7_CorrelatedIffNearby ==
    Finished =>
        /\ {report.event_correlations[k].event_date : k \in DOMAIN report.event_correlations}
              = {ev.date : ev \in {e \in Events : PromotedNear(e) # {}}}
        /\ \A k \in DOMAIN report.event_correlations :
              report.event_correlations[k].anomaly_count >= 1
        /\ \A a, b \in DOMAIN report.event_correlations :
              report.event_correlations[a].event_date = report.event_correlations[b].event_date
                  => a = b

\* C7 witness: a finished report that lists one event and, with anomalies
\* present, leaves another event out.
C7_Witness ==
    /\ Finished
    /\ all_anomalies # <<>>
    /\ Len(report.event_correlations) = 1

\* C8: once the loop over terms has ended, the rows handed to the
\* correlator are exactly the (date, term) pairs of analyzed terms whose
\* date at least 3 detectors flagged, each once, with the value of the
\* DataFrame at that date.
C8_CorrelatorInputIsPromoted ==
    pc \in {"correlate", "done"} =>
        /\ {<<all_anomalies[k].date, all_anomalies[k].term>> : k \in DOMAIN all_anomalies}
              = Promoted
        /\ Len(all_anomalies) = Cardinality(Promoted)
        /\ \A k \in DOMAIN all_anomalies :
              all_anomalies[k].value = Loc(df, all_anomalies[k].date, all_anomalies[k].term)

\* C8 witness: a finished report with a promoted pair matched to an event,
\* while some date flagged by one or two detectors stayed out.
C8_Witness ==
    /\ Finished
    /\ report.event_correlations # <<>>
    /\ \E name \in AnalyzedTerms : \E d \in IndexDates : Agreement(name, d) \in {1, 2}

\* C9: the event correlations of a report are in the chronological order
\* of their event dates.
C9_CorrelationsChronological ==
    \A a, b \in DOMAIN report.event_correlations :
        a < b => ToDatetime(report.event_correlations[a].event_date)
                    < ToDatetime(report.event_correlations[b].event_date)

\* C9 witness: a finished report with two correlations whose anomalies were
\* discovered in the order opposite to the events' (the first row is near
\* the second event only).
C9_Witness ==
    /\ Finished
    /\ Len(report.event_correlations) = 2
    /\ Len(all_anomalies) = 2
    /\ LET first == CHOOSE e \in Events : e.date = report.event_correlations[1].event_date
       IN Abs(all_anomalies[1].date - EventDay(first)) > 14

\* the pre-period of the stand-alone call has no observation or mean zero
DegenerateBaseline(term) ==
    \/ PrePositions(df) = {}
    \/ SumOver(df.cols[term], PrePositions(df)) = 0

\* C10 (as stated): when the pre-period is empty or its mean is zero, the
\* percent change of a returned result is the missing value, not the
\* outcome of the division.
C10_PercentChangeMissing ==
    pc = "returned" =>
        \A term \in DOMAIN covid_results :
            DegenerateBaseline(term) => covid_results[term].percent_change.k = "nan"

\* the requested terms the stand-alone call finds in the DataFrame
CovidAnalyzed == Range(terms) \cap Columns(df)

\* C11 (as stated): when the series has no observation on or after the
\* cutoff, the call does not raise: it returns a result for every term of
\* the DataFrame, with peak value and peak date undefined.
C11_EmptyDuringStillProduced ==
    (pc # "idle" /\ DuringPositions(df) = {} /\ CovidAnalyzed # {}) =>
        /\ pc = "returned"
        /\ \A term \in CovidAnalyzed :
              /\ term \in DOMAIN covid_results
              /\ covid_results[term].peak_value.k = "nan"

\* the requested terms that are no column of the DataFrame
AbsentTerms == Range(terms) \ Columns(df)

\* C12 (as stated): with a requested term absent from the dataset (and
\* another one present) the report is still produced, every other
\* requested term has its summary, and the absent term has a per-term
\* record in the report.
C12_AbsentTermRecorded ==
    (Finished /\ AbsentTerms # {} /\ AnalyzedTerms # {}) =>
        /\ \A t \in AnalyzedTerms : t \in DOMAIN report.anomalies_by_term
        /\ \A t \in AbsentTerms :
              \/ t \in DOMAIN report.anomalies_by_term
              \/ t \in DOMAIN report.covid_impact

\* C13 (as stated): a failure while analyzing one term does not keep the
\* other requested terms out of the report: when, of two analyzed terms,
\* one's baseline-shift computation has failed, the invocation still
\* returns a report holding the summary of every term whose detectors ran.
C13_FailureIsolated ==
    (pc = "raised" /\ Cardinality(AnalyzedTerms) >= 2) =>
        /\ Len(returned) >= 1
        /\ returned[Len(returned)].report.analysis_date = report.analysis_date
        /\ \A t \in AnalyzedTerms :
              t \in DOMAIN returned[Len(returned)].report.anomalies_by_term

\* a negative threshold, or a quorum above the number of detectors
InvalidConfig ==
    \/ config.threshold.num < 0
    \/ config.quorum > Cardinality(MethodNames)

\* C14 (as stated): with an invalid configuration value the report
\* invocation fails before any per-term work: no detector result is stored
\* and no report is returned.
C14_InvalidConfigFailsFast ==
    InvalidConfig => (anomalies = EmptyDict /\ returned = <<>>)

\* C18 (as stated): the quorum is a parameter of the aggregator: with a
\* quorum of 2 or 3 configured, a date is high-confidence exactly when at
\* least that many detectors flagged it, so the set under quorum 2 contains
\* the set under quorum 3.
C18_QuorumConfigurable ==
    config.quorum \in {2, 3} =>
        \A name \in DOMAIN anomalies : \A d \in IndexDates :
            d \in HighConfidenceDates(anomalies[name])
                <=> Agreement(name, d) >= config.quorum

\* C19: within one generate_report invocation correlate_with_events is
\* called at most once, and when it has been called the loop over the
\* terms has ended and every requested term of the DataFrame has its
\* detector result and its summary in the report.
C19_CorrelatorIsBarrier ==
    /\ correlate_calls <= 1
    /\ correlate_calls = 1 =>
          /\ i > Len(terms)
          /\ pc = "done"
          /\ \A t \in AnalyzedTerms :
                /\ t \in DOMAIN anomalies
                /\ t \in DOMAIN report.anomalies_by_term

\* C19 witness: a finished report whose one correlator call received the
\* merged anomalies of two terms.
C19_Witness ==
    /\ Finished
    /\ correlate_calls = 1
    /\ Cardinality({all_anomalies[k].term : k \in DOMAIN all_anomalies}) = 2

\* the series of the stand-alone detect_all_methods call, and its result
DetectSeries == df.cols["depression"]

DetectResult == anomalies["depression"]

\* the date at position p of the index
DateAt(p) == df.index[p]

AllEqual(x) == \A p, q \in DOMAIN x : x[p] = x[q]

\* C17: for a constant series, of any length, each of the four detectors
\* returns an empty set, and consensus_count and the high-confidence set
\* are empty.
C17_ConstantSeriesNothingFlagged ==
    (pc = "returned" /\ AllEqual(DetectSeries)) =>
        /\ \A m \in MethodNames : DetectResult.methods[m] = {}
        /\ consensus_count = EmptyDict
        /\ DetectResult.high_confidence = <<>>

\* C17 witness: the call has returned for a constant series long enough
\* for the rolling detector to have full windows.
C17_Witness ==
    /\ pc = "returned"
    /\ AllEqual(DetectSeries)
    /\ Len(DetectSeries) > RollWindow
    /\ DetectResult.methods.rolling_stats = {}

\* the positions whose date the rolling detector flagged
RollingFlagged == {p \in DOMAIN DetectSeries : DateAt(p) \in DetectResult.methods.rolling_stats}

\* C20 (as stated): the rolling detector flags none of the first w/2 and
\* none of the last w/2 observations (w = 12).
C20_RollingSkipsBothHalfWindows ==
    pc = "returned" =>
        \A p \in RollingFlagged :
            /\ p > RollWindow \div 2
            /\ p <= Len(DetectSeries) - RollWindow \div 2

\* C20 (amended): the rolling detector flags none of the first w/2 and none
\* of the last w/2 - 1 observations (w = 12: the first 6 and the last 5).
C20_RollingSkipsIncompleteWindows ==
    pc = "returned" =>
        \A p \in RollingFlagged :
            /\ p > RollWindow \div 2
            /\ p <= Len(DetectSeries) - (RollWindow \div 2 - 1)

\* C20 witness: a series whose extreme value, flagged by the z-score
\* detector, is among the last w/2 - 1 observations and is not flagged by
\* the rolling detector, which has full windows elsewhere.
C20_Witness ==
    /\ pc = "returned"
    /\ Len(DetectSeries) > RollWindow
    /\ \E p \in DOMAIN DetectSeries :
          /\ p > Len(DetectSeries) - (RollWindow \div 2 - 1)
          /\ DateAt(p) \in DetectResult.methods.zscore
          /\ p \notin RollingFlagged

\* the other values of the series, and the distance of x[p] from their range
Others(x, p) == {x[q] : q \in DOMAIN x \ {p}}

Lowest(S) == CHOOSE v \in S : \A u \in S : v <= u

Highest(S) == CHOOSE v \in S : \A u \in S : u <= v

Width(S) == Highest(S) - Lowest(S)

Distance(v, S) ==
    IF v > Highest(S) THEN v - Highest(S)
    ELSE IF v < Lowest(S) THEN Lowest(S) - v
    ELSE 0

\* the range the normal points of a series lie in
NormalRange == 40..60

\* position p holds the one value of x outside the normal range
SingleExtreme(x, p) ==
    /\ x[p] \notin NormalRange
    /\ \A q \in DOMAIN x \ {p} : x[q] \in NormalRange

FlaggedByBoth(p) ==
    /\ DateAt(p) \in DetectResult.methods.zscore
    /\ DateAt(p) \in DetectResult.methods.modified_zscore
    /\ consensus_count[DateAt(p)] >= 2

\* C16 (as stated): in every series (here of more than 12 points) with
\* exactly one extreme value among normal-range points, the z-score and
\* the modified z-score detector both flag that point, and its agreement
\* count is at least 2.
C16_SingleOutlierFlaggedByBoth ==
    (pc = "returned" /\ Len(DetectSeries) > RollWindow) =>
        \A p \in DOMAIN DetectSeries :
            SingleExtreme(DetectSeries, p) =>
                /\ DateAt(p) \in DOMAIN consensus_count
                /\ FlaggedByBoth(p)

\* median absolute deviation of the series is not zero
NonZeroMad(x) ==
    LET med2 == Median2(x)
    IN Median2([q \in DOMAIN x |-> Abs(2 * x[q] - med2)]) # 0

\* position p holds a value farther from the range of all other values
\* than six times the width of that range
FarOutlier(x, p) ==
    Distance(x[p], Others(x, p)) > 6 * Width(Others(x, p))

\* C16 (amended): in every series of at least 9 points with a non-zero
\* median absolute deviation, a value farther from the range of the other
\* values than six times the width of that range is flagged by the z-score
\* and by the modified z-score detector, and its agreement count is at
\* least 2.
C16_FarOutlierFlaggedByBoth ==
    pc = "returned" =>
        \A p \in DOMAIN DetectSeries :
            (/\ Len(DetectSeries) >= 9
             /\ NonZeroMad(DetectSeries)
             /\ FarOutlier(DetectSeries, p)) =>
                /\ DateAt(p) \in DOMAIN consensus_count
                /\ FlaggedByBoth(p)

\* C16 witness: a series of 9 points with a non-zero median absolute
\* deviation whose far outlier, a value below the others, both detectors
\* flagged.
C16_Witness ==
    /\ pc = "returned"
    /\ Len(DetectSeries) = 9
    /\ NonZeroMad(DetectSeries)
    /\ \E p \in DOMAIN DetectSeries :
          /\ FarOutlier(DetectSeries, p)
          /\ DetectSeries[p] < Lowest(Others(DetectSeries, p))
          /\ DateAt(p) \in DOMAIN consensus_count
          /\ FlaggedByBoth(p)

\* the date of the scenario's single value of 95
ScenarioDay ==
    df.index[CHOOSE p \in DOMAIN df.index : df.cols["depression"][p] = 95]

\* C15: in the end-to-end scenario the report's high-confidence anomaly
\* list of 'depression' holds exactly the day of the 95, and the stored
\* high-confidence set is that one date.
C15_ScenarioExactlyDay50 ==
    "depression" \in DOMAIN report.anomalies_by_term =>
        /\ report.anomalies_by_term["depression"] =
              [total_anomalies |-> 1, dates |-> <<DateStr(ScenarioDay)>>]
        /\ "depression" \in DOMAIN anomalies =>
              HighConfidenceDates(anomalies["depression"]) = {ScenarioDay}

\* C15 witness: a finished report of the scenario that lists the day of
\* the 95 for 'depression' and matches it to an event.
C15_Witness ==
    /\ Finished
    /\ "depression" \in DOMAIN report.anomalies_by_term
    /\ report.anomalies_by_term["depression"].dates = <<DateStr(ScenarioDay)>>
    /\ report.event_correlations # <<>>

\* more than half of the values of x are one and the same value
MajorityValue(x) ==
    \E m \in Range(x) : 2 * Cardinality({p \in DOMAIN x : x[p] = m}) > Len(x)

\* C21: when the median absolute deviation is 0, that is when more than
\* half of the values equal the median, the modified z-score detector
\* returns the empty set, however far another value lies.
C21_ZeroMadNothingFlagged ==
    (pc = "returned" /\ (MajorityValue(DetectSeries) \/ ~NonZeroMad(DetectSeries))) =>
        DetectResult.methods.modified_zscore = {}

\* C21 witness: a non-constant series with a majority value and a value 45
\* or more away from it, which the z-score detector flagged and the
\* modified z-score detector did not.
C21_Witness ==
    /\ pc = "returned"
    /\ MajorityValue(DetectSeries)
    /\ \E p \in DOMAIN DetectSeries :
          /\ Distance(DetectSeries[p], Others(DetectSeries, p)) >= 45
          /\ DateAt(p) \in DetectResult.methods.zscore
    /\ DetectResult.methods.modified_zscore = {}

\* C23 (as stated): nothing persists beyond one report: once
\* generate_report has returned, the detector object holds no anomaly
\* results.
C23_NothingPersists ==
    Finished => anomalies = EmptyDict

\* positions of the stand-alone call's index: the cutoff day, the days of
\* the pre-period before it, and the days after it
CutoffDay == ToDatetime(covid_start)

CutoffPositions == {k \in DOMAIN df.index : df.index[k] = CutoffDay}

BeforeCutoff ==
    {k \in DOMAIN df.index : ToDatetime(pre_covid) <= df.index[k] /\ df.index[k] < CutoffDay}

AfterCutoff == {k \in DOMAIN df.index : df.index[k] > CutoffDay}

\* C24: an observation dated on the cutoff counts in both means: the
\* pre-period mean is that of the earlier days and the cutoff day, the
\* during-period mean that of the cutoff day and the later days, and the
\* peak is not below the cutoff day's value.
C24_CutoffInBothSlices ==
    (pc = "returned" /\ CutoffPositions # {}) =>
        \A term \in DOMAIN covid_results :
            LET x == df.cols[term]
                c == CHOOSE k \in CutoffPositions : TRUE
                r == covid_results[term]
            IN /\ r.pre_covid_avg =
                      Num(SumOver(x, BeforeCutoff) + x[c], Cardinality(BeforeCutoff) + 1)
               /\ r.during_covid_avg =
                      Num(SumOver(x, AfterCutoff) + x[c], Cardinality(AfterCutoff) + 1)
               /\ r.peak_value.n >= x[c]

\* C24 witness: the cutoff day, between earlier and later days, holds the
\* largest value and is the reported peak date.
C24_Witness ==
    /\ pc = "returned"
    /\ CutoffPositions # {} /\ BeforeCutoff # {} /\ AfterCutoff # {}
    /\ \E term \in DOMAIN covid_results :
          /\ covid_results[term].peak_date = covid_start
          /\ \A k \in BeforeCutoff \cup AfterCutoff :
                df.cols[term][k] < df.cols[term][CHOOSE c \in CutoffPositions : TRUE]

\* C25: in every returned report terms_analyzed is the requested list, and
\* the keys of anomalies_by_term and of covid_impact are the requested terms
\* that are columns of the DataFrame.
C25_ReportKeys ==
    \A k \in DOMAIN returned :
        /\ returned[k].report.terms_analyzed = terms
        /\ DOMAIN returned[k].report.anomalies_by_term = Range(terms) \cap Columns(df)
        /\ DOMAIN returned[k].report.covid_impact = Range(terms) \cap Columns(df)

\* C25 witness: a returned report for a list with one term that is a
\* column and one that is not.
C25_Witness ==
    /\ Finished
    /\ returned # <<>>
    /\ AbsentTerms # {}
    /\ AnalyzedTerms # {}

\* C26: when no analyzed term has a high-confidence anomaly, the finished
\* invocation has not called the correlator and event_correlations is the
\* empty list.
C26_NoAnomalyNoCorrelation ==
    (Finished /\ Promoted = {}) =>
        /\ correlate_calls = 0
        /\ report.event_correlations = <<>>

\* C26 witness: a finished report for an analyzed term with a date that one
\* or two detectors flagged and none promoted.
C26_Witness ==
    /\ Finished
    /\ Promoted = {}
    /\ \E name \in AnalyzedTerms : \E d \in IndexDates : Agreement(name, d) \in {1, 2}

\* C27: each detect_all_methods call leaves the entry of every other name
\* as it was, adds no other name, and leaves under its own name exactly the
\* result of this call, whose flagged dates are those of consensus_count.
C27_StoreReplacesOneEntry ==
    [][i' = i + 1 =>
          \E name \in DOMAIN anomalies' :
              /\ DOMAIN anomalies' = DOMAIN anomalies \cup {name}
              /\ \A o \in DOMAIN anomalies \ {name} : anomalies'[o] = anomalies[o]
              /\ ConsensusCount(anomalies'[name].methods) = consensus_count']_vars

\* C27 witness: two calls under one name returned different results, the
\* entry of that name is the later one, and another name has its entry.
C27_Witness ==
    /\ Len(returned) = 3
    /\ returned[1].name = returned[3].name
    /\ returned[1].result # returned[3].result
    /\ returned[2].name # returned[1].name
    /\ anomalies[returned[3].name] = returned[3].result
    /\ anomalies[returned[2].name] = returned[2].result

\* the entries of term t in a report
TermEntries(rep, t) ==
    <<IF t \in DOMAIN rep.anomalies_by_term THEN <<rep.anomalies_by_term[t]>> ELSE <<>>,
      IF t \in DOMAIN rep.covid_impact THEN <<rep.covid_impact[t]>> ELSE <<>> >>

\* C22: the reports one process returns for the same DataFrame hold the
\* same entries for every term whatever the order of the requested terms,
\* and a step changes the anomalies_by_term entry and the stored detector
\* entry of no term other than the one it analyzes.
C22_PerTermIndependent ==
    /\ [](\A a, b \in DOMAIN returned :
              returned[a].hashseed = returned[b].hashseed =>
                  \A t \in Terms :
                      TermEntries(returned[a].report, t) = TermEntries(returned[b].report, t))
    /\ [][\A t \in Terms :
              /\ (/\ t \in DOMAIN report.anomalies_by_term
                  /\ t \in DOMAIN report'.anomalies_by_term
                  /\ report'.anomalies_by_term[t] # report.anomalies_by_term[t])
                    => (pc = "terms" /\ i <= Len(terms) /\ terms[i] = t)
              /\ (/\ t \in DOMAIN anomalies
                  /\ t \in DOMAIN anomalies'
                  /\ anomalies'[t] # anomalies[t])
                    => (pc = "terms" /\ i <= Len(terms) /\ terms[i] = t)]_vars

\* C22 witness: one process has returned two reports for the two terms in
\* the two orders, the terms having different entries and one of them
\* anomalies.
C22_Witness ==
    /\ Len(returned) = 2
    /\ returned[1].hashseed = returned[2].hashseed
    /\ returned[1].report.terms_analyzed = <<"depression", "anxiety">>
    /\ returned[2].report.terms_analyzed = <<"anxiety", "depression">>
    /\ DOMAIN returned[2].report.anomalies_by_term = Terms
    /\ DOMAIN returned[2].report.covid_impact = Terms
    /\ returned[2].report.anomalies_by_term["depression"].total_anomalies > 0
    /\ returned[2].report.anomalies_by_term["depression"]
           # returned[2].report.anomalies_by_term["anxiety"]
    /\ returned[2].report.covid_impact["depression"] # returned[2].report.covid_impact["anxiety"]

\* a fetch that raised or yielded an empty DataFrame
Failed(fetch) == fetch.raised \/ Empty(fetch.data)

\* C28: collect_historical_data makes at most retries fetches and none
\* after a non-empty one; it never raises; it returns the first non-empty
\* result (without isPartial), or, after retries failed fetches, an empty
\* DataFrame; and it does return.
C28_BoundedRetries ==
    /\ [](/\ Len(fetches) <= retries
          /\ \A k \in 1..(Len(fetches) - 1) : Failed(fetches[k])
          /\ cpc # "raised"
          /\ cpc = "returned" =>
                IF fetches # <<>> /\ ~Failed(fetches[Len(fetches)])
                THEN collected = <<Drop(fetches[Len(fetches)].data, "isPartial")>>
                ELSE Len(fetches) = retries /\ collected = <<EmptyDataFrame>>)
    /\ <>(cpc = "returned")

\* C28 witness: three attempts were allowed; the fetches raised, yielded
\* nothing and raised again, and the call returned an empty DataFrame.
C28_Witness ==
    /\ cpc = "returned"
    /\ retries = 3
    /\ Len(fetches) = 3
    /\ fetches[1].raised
    /\ ~fetches[2].raised
    /\ fetches[3].raised
    /\ collected = <<EmptyDataFrame>>

\* C29: every chunk of collect_daily_data_chunked spans at most 180 days
\* and ends no later than the end date; each chunk after the first starts
\* the day after the previous one ended; chunks are requested up to the
\* end date whatever the fetches yielded; and the call returns.
C29_ChunkLoop ==
    /\ [](/\ \A k \in DOMAIN timeframes :
                /\ timeframes[k][1] <= timeframes[k][2]
                /\ timeframes[k][2] - timeframes[k][1] <= 180
                /\ timeframes[k][2] <= strftime(end)
          /\ \A k \in 2..Len(timeframes) : timeframes[k][1] = timeframes[k - 1][2] + 1
          /\ Len(all_chunks) <= Len(timeframes)
          /\ (cpc = "returned" /\ timeframes # <<>>) =>
                timeframes[Len(timeframes)][2] >= strftime(end) - 1)
    /\ <>(cpc = "returned")

\* C29 witness: the call has returned after three chunks, the first of
\* 180 days; no fetch of the first two chunks yielded data, the third
\* chunk's did.
C29_Witness ==
    /\ cpc = "returned"
    /\ retries >= 2
    /\ Len(timeframes) = 3
    /\ timeframes[1][2] - timeframes[1][1] = 180
    /\ Len(all_chunks) = 1
    /\ all_chunks[1].index[1] = timeframes[3][1]
    /\ collected = <<all_chunks[1]>>

\* the steps that raised
FailedSteps == {k \in DOMAIN outcomes : outcomes[k] # "returned"}

\* C30: the steps called are a prefix of data collection, preprocessing,
\* model training, anomaly detection; without --continue-on-error nothing
\* is called after a step that raised and the process then exits with
\* status 1; with the flag the process ends only after all four steps were
\* called.
C30_PipelineOrder ==
    /\ Len(started) <= 4
    /\ \A k \in DOMAIN started :
          started[k] = <<"collect_data", "preprocess_data", "train_models",
                         "detect_anomalies">>[k]
    /\ ~continue_on_error =>
          /\ \A k \in FailedSteps : k = Len(started) /\ exit_status = <<1>>
          /\ exit_status = <<1>> => FailedSteps # {}
    /\ (continue_on_error /\ ppc = "exited") => Len(started) = 4

\* C30 witness, with the flag: the first and the third step raised and all
\* four were called.
C30_Witness ==
    /\ continue_on_error
    /\ ppc = "exited"
    /\ outcomes = <<"ValueError", "returned", "FileNotFoundError", "returned">>
    /\ Len(started) = 4

\* C30 witness, without the flag: the second step raised, the process has
\* exited with status 1 and two steps were called.
C30_WitnessExit ==
    /\ ~continue_on_error
    /\ outcomes = <<"returned", "ValueError">>
    /\ exit_status = <<1>>
    /\ started = <<"collect_data", "preprocess_data">>

====
